---- MODULE Spec2Model ----
(***************************************************************************)
(* A model of daqiancode/cachelayer: the JSON-over-Redis stores            *)
(* (jsonSerializer.go), the per-key cache coordinator over MongoDB         *)
(* (mongoredis/redismongo.go) and the whole-collection cache               *)
(* (fullRedisCache.go).                                                    *)
(*                                                                         *)
(* Six specifications share the variables:                                 *)
(*   SpecKS    the RedisJson key/value store on its own                    *)
(*   SpecStore RedisJson and RedisHashJson with their batched calls, over  *)
(*             values that may not encode and texts that may not decode    *)
(*   SpecInv   the ClearCache calls of both caches                         *)
(*   SpecRM    RedisMongo's handlers over a document collection and the    *)
(*             per-key cache                                               *)
(*   SpecFull  FullRedisCache's handlers, one call at a time               *)
(*   SpecConc  FullRedisCache's handlers as interleaved steps of two       *)
(*             callers                                                     *)
(***************************************************************************)
EXTENDS Integers, Sequences, FiniteSets, TLC

VARIABLES
    cache,   \* the Redis string keys: key -> NoKey or [t: text, ttl: remaining time]
    db,      \* the backend collection: id -> entity or NoDoc
    hash,    \* the Redis hash under CacheKey(): NoHash or [f: field -> text, ttl]
    ret,     \* what the last completed call did and returned
    ops,     \* number of calls made so far
    pc,      \* SpecConc: each caller's position inside its call
    loc,     \* SpecConc: each caller's local variables
    created, \* SpecConc: id -> the entity a Create that returned nil stored under
             \* it, while no Update or Delete has been aimed at the id since
    stored   \* SpecStore: key -> [e: the entity a SetJson that returned nil left
             \* under the key, while the key has not been written otherwise,
             \* deleted or expired; age: clock ticks since the key was last written]

vars == <<cache, db, hash, ret, ops, pc, loc, created, stored>>

----------------------------------------------------------------------------
(* Bounds of the model *)

\* store calls in one behaviour of SpecKS
MaxOps == 3
\* coordinator calls in one behaviour of SpecRM
RMCalls == 2
\* FullRedisCache calls in one behaviour of SpecFull
FullCalls == 2
\* FullRedisCache calls in one behaviour of SpecConc
ConcCalls == 2
\* calls in one behaviour of SpecInv
InvCalls == 3
\* store calls in one behaviour of SpecStore
StoreCalls == 2
\* the configured time-to-live, in clock ticks
TTL == 2

----------------------------------------------------------------------------
(* Entities: the Table[I] the stores are instantiated with *)

NullID == ""
IDs == {"1", "2"}
Names == {"a", "A", "b"}
Grps == {"g"}

Zero == [id |-> NullID, name |-> "", grp |-> ""]
NoDoc == [id |-> "none", name |-> "", grp |-> ""]

Entities == [id : IDs \cup {NullID}, name : Names, grp : Grps]

IsNullID(id) == id = NullID

GetID(e) == e.id

Index(f, v) == [f |-> f, v |-> v]

\* the secondary indexes an entity declares: one on name, one on grp
ListIndexes(e) == <<Index("name", e.name), Index("grp", e.grp)>>

\* Indexes.Merge: the other list appended
Merge(a, b) == a \o b

Range(s) == {s[i] : i \in DOMAIN s}

----------------------------------------------------------------------------
(* The serializer: texts are JSON documents *)

NullText == [json |-> "null"]
Garbage == [json |-> "malformed"]

\* an encoder that leaves the grp field out of the text
Marshal_OmitsGrp(e) == [json |-> "object", id |-> e.id, name |-> e.name, grp |-> ""]

Marshal(e) == [json |-> "object", id |-> e.id, name |-> e.name, grp |-> e.grp]

\* decoding into a variable that holds r: JSON null leaves r as it is
Unmarshal(text, r) ==
    IF text.json = "null" THEN [val |-> r, err |-> "ok"]
    ELSE IF text.json = "object"
         THEN [val |-> [id |-> text.id, name |-> text.name, grp |-> text.grp], err |-> "ok"]
         ELSE [val |-> r, err |-> "decode"]

EntityTexts == {Marshal(e) : e \in Entities}

\* a Go string handed over as interface{}: it encodes to a JSON string
PlainString == [str |-> "1"]

\* entities the encoder rejects (a field of a type JSON cannot hold)
Unencodable == {[id |-> i, name |-> "a", grp |-> "g", ch |-> "chan"] : i \in IDs}

\* Marshal(v) returns no error
Marshals(v) == "ch" \notin DOMAIN v

\* Marshal of any value that encodes
MarshalAny(v) ==
    IF "str" \in DOMAIN v THEN [json |-> "string", s |-> v.str] ELSE Marshal(v)

----------------------------------------------------------------------------
(* Cache keys *)

Lower(s) == IF s = "A" THEN "a" ELSE IF s = "Id" THEN "id" ELSE s

\* {prefix}/{table}/{field}/{value}, lower-cased; prefix and table are fixed
MakeCacheKey(idx) == <<Lower(idx.f), Lower(idx.v)>>

\* the list without its repeated elements, first occurrences kept
RECURSIVE UniqueStrings(_)
UniqueStrings(keys) ==
    IF keys = <<>> THEN <<>>
    ELSE LET n == Len(keys)
             front == UniqueStrings(SubSeq(keys, 1, n - 1))
         IN IF keys[n] \in Range(front) THEN front ELSE Append(front, keys[n])

AllKeys ==
    {MakeCacheKey(Index("Id", i)) : i \in IDs \cup {NullID}}
    \cup {MakeCacheKey(Index("name", n)) : n \in Names \cup {""}}
    \cup {MakeCacheKey(Index("grp", g)) : g \in Grps \cup {""}}

NoKey == [t |-> [json |-> "absent"], ttl |-> 0]

\* the remaining time of a key that has no expiry set
Persist == -1

EmptyCache == [k \in AllKeys |-> NoKey]

----------------------------------------------------------------------------
(* The Redis string commands the stores use *)

\* SETEX key ttl text
SetEX(c, key, text) == [c EXCEPT ![key] = [t |-> text, ttl |-> TTL]]

\* DEL keys...
Del(c, keys) == [k \in AllKeys |-> IF k \in keys THEN NoKey ELSE c[k]]

\* one clock tick: every key's remaining time drops by one, a key at zero is gone
Tick(c) ==
    [k \in AllKeys |->
        IF c[k] = NoKey \/ c[k].ttl = Persist THEN c[k]
        ELSE IF c[k].ttl <= 1 THEN NoKey
        ELSE [c[k] EXCEPT !.ttl = c[k].ttl - 1]]

----------------------------------------------------------------------------
(* RedisJson: what each call returns, and the cache it leaves *)

\* GetJson(key): (value, found, error)
GetJson(c, key, fail) ==
    IF fail THEN [val |-> Zero, found |-> FALSE, err |-> "redis"]
    ELSE IF c[key] = NoKey THEN [val |-> Zero, found |-> FALSE, err |-> "ok"]
    ELSE LET u == Unmarshal(c[key].t, Zero)
         IN [val |-> u.val, found |-> TRUE, err |-> u.err]

\* SetJson(key, obj)
SetJson(c, key, obj) == SetEX(c, key, Marshal(obj))

\* SetNull(key)
SetNull(c, key) == SetEX(c, key, NullText)

----------------------------------------------------------------------------
(* RedisJson: the batched calls *)

\* MSET key text ...: the keys are set without an expiry
MSet(c, texts) ==
    [k \in AllKeys |->
        IF k \in DOMAIN texts THEN [t |-> texts[k], ttl |-> Persist] ELSE c[k]]

\* EXPIRE key ttl for each of keys: nothing happens to a key that does not exist
ExpireKeys(c, keys) ==
    [k \in AllKeys |->
        IF k \in keys /\ c[k] # NoKey THEN [c[k] EXCEPT !.ttl = TTL] ELSE c[k]]

\* Expires(keys...): one pipeline of EXPIREs; when Exec fails, done holds the
\* keys whose EXPIRE the server has run
Expires(c, keys, fail, done) ==
    IF keys = {} THEN [cache |-> c, err |-> "ok"]
    ELSE IF fail THEN [cache |-> ExpireKeys(c, done), err |-> "redis"]
    ELSE [cache |-> ExpireKeys(c, keys), err |-> "ok"]

\* an MSetJson that writes the values that encode although another does not
MSetJson_WritesEncoded(c, objMap, fault, done) ==
    LET good == {k \in DOMAIN objMap : Marshals(objMap[k])}
        objJsonMap == [k \in good |-> MarshalAny(objMap[k])]
    IN IF DOMAIN objMap = {} THEN [cache |-> c, err |-> "ok"]
       ELSE IF good # DOMAIN objMap
       THEN [cache |-> Expires(MSet(c, objJsonMap), good, FALSE, {}).cache,
             err |-> "marshal"]
       ELSE IF fault = "mset" THEN [cache |-> c, err |-> "redis"]
       ELSE Expires(MSet(c, objJsonMap), good, fault = "expires", done)

\* MSetJson(objMap): every value is encoded, then MSET, then Expires
MSetJson(c, objMap, fault, done) ==
    LET keys == DOMAIN objMap
        objJsonMap == [k \in keys |-> MarshalAny(objMap[k])]
    IN IF keys = {} THEN [cache |-> c, err |-> "ok"]
       ELSE IF \E k \in keys : ~Marshals(objMap[k]) THEN [cache |-> c, err |-> "marshal"]
       ELSE IF fault = "mset" THEN [cache |-> c, err |-> "redis"]
       ELSE Expires(MSet(c, objJsonMap), keys, fault = "expires", done)

\* MSetNull(keys): one pipeline of SETEX key ttl "null"; when Exec fails, done
\* holds the keys whose SETEX the server has run
MSetNull(c, keys, fail, done) ==
    LET put(ks) == [k \in AllKeys |->
                       IF k \in ks THEN [t |-> NullText, ttl |-> TTL] ELSE c[k]]
    IN IF keys = {} THEN [cache |-> c, err |-> "ok"]
       ELSE IF fail THEN [cache |-> put(done), err |-> "redis"]
       ELSE [cache |-> put(keys), err |-> "ok"]

\* MGetJson(keys): (values, missed positions, error) and the cache it leaves.
\* A text that does not decode ends the call; otherwise every key is given a
\* new EXPIRE, and failAt is the position whose EXPIRE fails, if any
MGetJson(c, keys, fail, failAt) ==
    LET n == Len(keys)
        vs == [i \in 1..n |-> c[keys[i]]]
        missed == {i \in 1..n : vs[i] = NoKey}
        bad == {i \in 1..n : vs[i] # NoKey /\ Unmarshal(vs[i].t, Zero).err # "ok"}
        firstBad == CHOOSE i \in bad : \A j \in bad : i <= j
        r == [i \in 1..n |-> IF vs[i] = NoKey THEN Zero
                              ELSE Unmarshal(vs[i].t, Zero).val]
    IN IF n = 0 THEN [vals |-> <<>>, missed |-> {}, err |-> "ok", cache |-> c]
       ELSE IF fail THEN [vals |-> <<>>, missed |-> {}, err |-> "redis", cache |-> c]
       ELSE IF bad # {}
       THEN [vals |-> <<>>, missed |-> {i \in missed : i < firstBad},
             err |-> "decode", cache |-> c]
       ELSE IF failAt \in 1..n
       THEN [vals |-> r, missed |-> missed, err |-> "redis",
             cache |-> ExpireKeys(c, {keys[i] : i \in 1..(failAt - 1)})]
       ELSE [vals |-> r, missed |-> missed, err |-> "ok",
             cache |-> ExpireKeys(c, Range(keys))]

----------------------------------------------------------------------------
(* The record of the last completed call *)

RetNone ==
    [op |-> "none", path |-> "", err |-> "ok", id |-> NullID, key |-> <<>>,
     val |-> Zero, found |-> FALSE, n |-> 0, vals |-> {}, hit |-> NoKey.t,
     wrote |-> FALSE, delReq |-> <<>>, delOK |-> <<>>, pre |-> NoDoc, post |-> NoDoc,
     loaded |-> "none", changed |-> {}, panic |-> FALSE,
     hsame |-> TRUE, since |-> [i \in IDs |-> NoDoc], dbErr |-> FALSE,
     texts |-> {}, keys |-> {}, caller |-> 0,
     absent |-> FALSE, again |-> FALSE, prior |-> 0, ttl |-> 0]

NoHash == [f |-> [i \in IDs |-> NoKey.t], ttl |-> 0]

EmptyDb == [i \in IDs |-> NoDoc]

NoStored == [k \in AllKeys |-> [e |-> NoDoc, age |-> 0]]

----------------------------------------------------------------------------
(* SpecKS: the RedisJson store on its own *)

KSKeys == {MakeCacheKey(Index("Id", i)) : i \in IDs}

KSValues == {e \in Entities : e.id = "1"}

InitKS ==
    /\ cache = EmptyCache
    /\ db = EmptyDb
    /\ hash = NoHash
    /\ ret = RetNone
    /\ ops = 0
    /\ pc = <<>>
    /\ loc = <<>>
    /\ created = EmptyDb
    /\ stored = NoStored

KS_SetJson ==
    \E k \in KSKeys, e \in KSValues, fail \in BOOLEAN :
        /\ ops < MaxOps
        /\ cache' = IF fail THEN cache ELSE SetJson(cache, k, e)
        /\ ret' = [RetNone EXCEPT !.op = "SetJson", !.key = k, !.val = e,
                                  !.err = IF fail THEN "redis" ELSE "ok"]
        /\ ops' = ops + 1
        /\ UNCHANGED <<db, hash, pc, loc, created, stored>>

KS_SetNull ==
    \E k \in KSKeys, fail \in BOOLEAN :
        /\ ops < MaxOps
        /\ cache' = IF fail THEN cache ELSE SetNull(cache, k)
        /\ ret' = [RetNone EXCEPT !.op = "SetNull", !.key = k,
                                  !.err = IF fail THEN "redis" ELSE "ok"]
        /\ ops' = ops + 1
        /\ UNCHANGED <<db, hash, pc, loc, created, stored>>

KS_GetJson ==
    \E k \in KSKeys, fail \in BOOLEAN :
        /\ ops < MaxOps
        /\ LET r == GetJson(cache, k, fail)
           IN ret' = [RetNone EXCEPT !.op = "GetJson", !.key = k, !.val = r.val,
                                     !.found = r.found, !.err = r.err,
                                     !.hit = IF fail THEN NoKey.t ELSE cache[k].t]
        /\ ops' = ops + 1
        /\ UNCHANGED <<cache, db, hash, pc, loc, created, stored>>

KS_Del ==
    \E k \in KSKeys, fail \in BOOLEAN :
        /\ ops < MaxOps
        /\ cache' = IF fail THEN cache ELSE Del(cache, {k})
        /\ ret' = [RetNone EXCEPT !.op = "Del", !.key = k,
                                  !.err = IF fail THEN "redis" ELSE "ok"]
        /\ ops' = ops + 1
        /\ UNCHANGED <<db, hash, pc, loc, created, stored>>

\* time passes
KS_Tick ==
    /\ cache' = Tick(cache)
    /\ cache' # cache
    /\ UNCHANGED <<db, hash, ret, ops, pc, loc, created, stored>>

NextKS == KS_SetJson \/ KS_SetNull \/ KS_GetJson \/ KS_Del \/ KS_Tick

SpecKS == InitKS /\ [][NextKS]_vars

----------------------------------------------------------------------------
(* Claims about the RedisJson store *)

\* C1: a GetJson that finds the SetNull sentinel under its key returns
\* (zero value, found = false, nil error)
C1_NegativeCaching ==
    (ret.op = "GetJson" /\ ret.hit = NullText)
        => (ret.val = Zero /\ ret.found = FALSE /\ ret.err = "ok")

----------------------------------------------------------------------------
(* The MongoDB collection behind RedisMongo *)

HasDoc(d, id) == id \in IDs /\ d[id] # NoDoc

\* RedisMongo.Get(id) on the collection: FindOne by _id
DbGet(d, id) ==
    IF HasDoc(d, id) THEN [val |-> d[id], found |-> TRUE]
    ELSE [val |-> Zero, found |-> FALSE]

\* the ids in the order the collection returns them
IdOrder == <<"1", "2">>

\* RedisMongo.List(ids): Find by _id $in ids
DbList(d, ids) ==
    LET hit(i) == IdOrder[i] \in ids /\ HasDoc(d, IdOrder[i])
    IN [j \in 1..Cardinality({i \in DOMAIN IdOrder : hit(i)}) |->
            d[IdOrder[CHOOSE i \in DOMAIN IdOrder :
                /\ hit(i)
                /\ Cardinality({h \in 1..i : hit(h)}) = j]]]

\* $set of the given fields
ApplySet(e, values) ==
    [f \in DOMAIN e |-> IF f \in DOMAIN values THEN values[f] ELSE e[f]]

DbStates ==
    {d \in [IDs -> Entities \cup {NoDoc}] : \A i \in IDs : d[i] = NoDoc \/ d[i].id = i}

----------------------------------------------------------------------------
(* RedisMongo *)

GetIdField == "Id"

\* the keys ClearCache(id, indexes) hands to DEL
ClearCacheKeys(id, indexes) ==
    UniqueStrings(
        (IF ~IsNullID(id) THEN <<MakeCacheKey(Index(GetIdField, id))>> ELSE <<>>)
        \o [i \in DOMAIN indexes |-> MakeCacheKey(indexes[i])])

\* a ClearCache that takes a DEL which removed nothing for a failure
ClearCache_FailsOnAbsent(c, id, indexes, fail) ==
    LET keys == ClearCacheKeys(id, indexes)
    IN IF fail \/ keys = <<>> \/ \A k \in Range(keys) : c[k] = NoKey
       THEN [cache |-> c, err |-> "redis", keys |-> keys]
       ELSE [cache |-> Del(c, Range(keys)), err |-> "ok", keys |-> keys]

\* ClearCache(id, indexes): the cache it leaves and the error it returns
ClearCache(c, id, indexes, fail) ==
    LET keys == ClearCacheKeys(id, indexes)
    IN IF fail \/ keys = <<>>
       THEN [cache |-> c, err |-> "redis", keys |-> keys]
       ELSE [cache |-> Del(c, Range(keys)), err |-> "ok", keys |-> keys]

\* Create(t): fresh is the id primitive.NewObjectID() yields;
\* fault is the one call that fails, if any
RedisMongo_Create(d, c, isNil, t, fresh, fault) ==
    IF isNil
    THEN [db |-> d, cache |-> c,
          ret |-> [RetNone EXCEPT !.op = "Create", !.path = "nil"]]
    ELSE
    LET e == IF IsNullID(GetID(t)) THEN [t EXCEPT !.id = fresh] ELSE t
        r0 == [RetNone EXCEPT !.op = "Create", !.path = "insert", !.val = e,
                              !.id = e.id, !.pre = DbGet(d, e.id).val]
    IN IF fault = "insert" \/ HasDoc(d, e.id)
       THEN [db |-> d, cache |-> c, ret |-> [r0 EXCEPT !.err = "db", !.dbErr = TRUE]]
       ELSE LET cc == ClearCache(c, GetID(e), ListIndexes(e), fault = "redis")
            IN [db |-> [d EXCEPT ![e.id] = e],
                cache |-> cc.cache,
                ret |-> [r0 EXCEPT !.wrote = TRUE, !.post = e,
                                   !.delReq = <<cc.keys>>,
                                   !.delOK = <<cc.err = "ok">>]]

\* Save(t)
RedisMongo_Save(d, c, isNil, t, fresh, fault) ==
    IF isNil
    THEN [db |-> d, cache |-> c,
          ret |-> [RetNone EXCEPT !.op = "Save", !.path = "nil"]]
    ELSE
    LET id == GetID(t)
        cr == RedisMongo_Create(d, c, FALSE, t, fresh, fault)
        viaCreate == [cr EXCEPT !.ret.op = "Save", !.ret.path = "create"]
        r0 == [RetNone EXCEPT !.op = "Save", !.val = t, !.id = id,
                              !.pre = DbGet(d, id).val]
    IN IF IsNullID(id) THEN viaCreate
       ELSE IF fault = "probe"
       THEN [db |-> d, cache |-> c,
             ret |-> [r0 EXCEPT !.path = "probe", !.dbErr = TRUE]]
       ELSE IF ~DbGet(d, id).found THEN viaCreate
       ELSE IF fault = "replace"
       THEN [db |-> d, cache |-> c,
             ret |-> [r0 EXCEPT !.path = "replace", !.err = "db", !.dbErr = TRUE]]
       ELSE [db |-> [d EXCEPT ![id] = t], cache |-> c,
             ret |-> [r0 EXCEPT !.path = "replace", !.wrote = TRUE, !.post = t]]

\* ClearCache for each object of objs in turn; failed holds the ids whose DEL fails
RECURSIVE ClearEach(_, _, _)
ClearEach(c, objs, failed) ==
    IF objs = <<>> THEN [cache |-> c, delReq |-> <<>>, delOK |-> <<>>]
    ELSE LET v == Head(objs)
             cc == ClearCache(c, GetID(v), ListIndexes(v), GetID(v) \in failed)
             rest == ClearEach(cc.cache, Tail(objs), failed)
         IN [cache |-> rest.cache,
             delReq |-> <<cc.keys>> \o rest.delReq,
             delOK |-> <<cc.err = "ok">> \o rest.delOK]

\* Delete(ids...)
RedisMongo_Delete(d, c, ids, fault, failed) ==
    LET r0 == [RetNone EXCEPT !.op = "Delete", !.keys = ids]
        objs == DbList(d, ids)
    IN IF ids = {}
       THEN [db |-> d, cache |-> c, ret |-> [r0 EXCEPT !.path = "empty"]]
       ELSE IF fault = "list"
       THEN [db |-> d, cache |-> c,
             ret |-> [r0 EXCEPT !.path = "list", !.err = "db", !.dbErr = TRUE]]
       ELSE IF fault = "delete"
       THEN [db |-> d, cache |-> c,
             ret |-> [r0 EXCEPT !.path = "delete", !.err = "db", !.dbErr = TRUE,
                                !.vals = Range(objs)]]
       ELSE LET ce == ClearEach(c, objs, failed)
            IN [db |-> [i \in IDs |-> IF i \in ids THEN NoDoc ELSE d[i]],
                cache |-> ce.cache,
                ret |-> [r0 EXCEPT !.path = "delete", !.wrote = TRUE,
                                   !.vals = Range(objs), !.n = Len(objs),
                                   !.delReq = ce.delReq, !.delOK = ce.delOK]]

\* an Update that clears the keys of the updated entity only
UpdateClearIndexes_NewOnly(old, newObj) == ListIndexes(newObj)

\* the indexes Update hands to ClearCache
UpdateClearIndexes(old, newObj) == Merge(ListIndexes(old), ListIndexes(newObj))

\* Update(id, values)
RedisMongo_Update(d, c, id, isMap, values, fault) ==
    LET r0 == [RetNone EXCEPT !.op = "Update", !.id = id]
        old == DbGet(d, id).val
        matched == IF HasDoc(d, id) THEN 1 ELSE 0
        d1 == IF HasDoc(d, id) THEN [d EXCEPT ![id] = ApplySet(d[id], values)] ELSE d
        newObj == DbGet(d1, id).val
        r1 == [r0 EXCEPT !.pre = old, !.post = newObj, !.wrote = TRUE, !.path = "update"]
    IN IF IsNullID(id)
       THEN [db |-> d, cache |-> c, ret |-> [r0 EXCEPT !.path = "nullid"]]
       ELSE IF fault = "get1"
       THEN [db |-> d, cache |-> c,
             ret |-> [r0 EXCEPT !.path = "get1", !.err = "db", !.dbErr = TRUE]]
       ELSE IF ~isMap
       THEN [db |-> d, cache |-> c, ret |-> [r0 EXCEPT !.path = "type", !.err = "type"]]
       ELSE IF fault = "update"
       THEN [db |-> d, cache |-> c,
             ret |-> [r0 EXCEPT !.path = "update", !.err = "db", !.dbErr = TRUE]]
       ELSE IF fault = "get2"
       THEN [db |-> d1, cache |-> c,
             ret |-> [r1 EXCEPT !.path = "get2", !.err = "db", !.dbErr = TRUE]]
       ELSE LET cc == ClearCache(c, GetID(old), UpdateClearIndexes(old, newObj),
                                 fault = "redis")
            IN [db |-> d1, cache |-> cc.cache,
                ret |-> [r1 EXCEPT !.n = matched, !.delReq = <<cc.keys>>,
                                   !.delOK = <<cc.err = "ok">>]]

----------------------------------------------------------------------------
(* The read-through reads that fill the per-key cache (RedisCache.Get, GetBy) *)

StringText(s) == [json |-> "string", s |-> s]

\* Get(id): a cached value or sentinel is served; a miss asks the backend and
\* stores the entity, or the sentinel when there is none
ReadThroughGet(d, c, id) ==
    LET key == MakeCacheKey(Index(GetIdField, id))
        g == DbGet(d, id)
    IN IF c[key] # NoKey THEN c
       ELSE IF g.found THEN SetJson(c, key, g.val) ELSE SetNull(c, key)

\* GetBy(index): the index key holds the id of the entity found, or the sentinel
ReadThroughGetBy(d, c, idx) ==
    LET key == MakeCacheKey(idx)
        hits == {i \in IDs : HasDoc(d, i) /\ d[i][idx.f] = idx.v}
    IN IF c[key] # NoKey THEN {c}
       ELSE IF hits = {} THEN {SetNull(c, key)}
       ELSE {SetEX(c, key, StringText(i)) : i \in hits}

----------------------------------------------------------------------------
(* SpecRM: RedisMongo's handlers, one call at a time *)

InitRM ==
    /\ cache = EmptyCache
    /\ db \in DbStates
    /\ hash = NoHash
    /\ ret = RetNone
    /\ ops = 0
    /\ pc = <<>>
    /\ loc = <<>>
    /\ created = EmptyDb
    /\ stored = NoStored

\* the ids NewObjectID can yield for t: one no document has
FreshIds(t) ==
    IF IsNullID(GetID(t)) THEN {i \in IDs : ~HasDoc(db, i)} ELSE {NullID}

Done(r) ==
    /\ db' = r.db
    /\ cache' = r.cache
    /\ ret' = [r.ret EXCEPT !.changed = {k \in AllKeys : r.cache[k] # cache[k]}]
    /\ ops' = ops + 1
    /\ UNCHANGED <<hash, pc, loc, created, stored>>

RM_Create ==
    \E t \in Entities, fault \in {"none", "insert", "redis"} :
        \E fresh \in FreshIds(t) :
            /\ ops < RMCalls
            /\ Done(RedisMongo_Create(db, cache, FALSE, t, fresh, fault))

RM_CreateNil ==
    /\ ops < RMCalls
    /\ Done(RedisMongo_Create(db, cache, TRUE, Zero, NullID, "none"))

RM_Save ==
    \E t \in Entities, fault \in {"none", "probe", "replace", "insert", "redis"} :
        \E fresh \in FreshIds(t) :
            /\ ops < RMCalls
            /\ Done(RedisMongo_Save(db, cache, FALSE, t, fresh, fault))

RM_SaveNil ==
    /\ ops < RMCalls
    /\ Done(RedisMongo_Save(db, cache, TRUE, Zero, NullID, "none"))

RM_Delete ==
    \E ids \in SUBSET IDs, fault \in {"none", "list", "delete"} :
        \E failed \in SUBSET ids :
            /\ ops < RMCalls
            /\ fault # "none" => failed = {}
            /\ Done(RedisMongo_Delete(db, cache, ids, fault, failed))

RM_Update ==
    \E id \in IDs \cup {NullID}, n \in Names,
       fault \in {"none", "get1", "update", "get2", "redis"} :
        /\ ops < RMCalls
        /\ Done(RedisMongo_Update(db, cache, id, TRUE, [name |-> n], fault))

RM_UpdateNotMap ==
    \E id \in IDs :
        /\ ops < RMCalls
        /\ Done(RedisMongo_Update(db, cache, id, FALSE, <<>>, "none"))

RM_ReadGet ==
    \E id \in IDs :
        /\ ops < RMCalls
        /\ cache' = ReadThroughGet(db, cache, id)
        /\ ret' = [RetNone EXCEPT !.op = "ReadGet", !.id = id]
        /\ ops' = ops + 1
        /\ UNCHANGED <<db, hash, pc, loc, created, stored>>

RM_ReadGetBy ==
    \E n \in Names :
        /\ ops < RMCalls
        /\ cache' \in ReadThroughGetBy(db, cache, Index("name", n))
        /\ ret' = [RetNone EXCEPT !.op = "ReadGetBy"]
        /\ ops' = ops + 1
        /\ UNCHANGED <<db, hash, pc, loc, created, stored>>

NextRM ==
    \/ RM_Create \/ RM_CreateNil \/ RM_Save \/ RM_SaveNil \/ RM_Delete
    \/ RM_Update \/ RM_UpdateNotMap \/ RM_ReadGet \/ RM_ReadGetBy

SpecRM == InitRM /\ [][NextRM]_vars

----------------------------------------------------------------------------
(* Claims about RedisMongo *)

\* the keys under which entity e is cached: its primary key and its index keys
InvalidationSet(e) ==
    {<<"id", e.id>>, <<"name", Lower(e.name)>>, <<"grp", Lower(e.grp)>>}

UpdatedExisting ==
    ret.op = "Update" /\ ret.path = "update" /\ ret.err = "ok" /\ ret.pre # Zero

\* C2: an Update of an existing entity that returns without error issues one
\* DEL whose keys are exactly the primary key and the index keys of the entity
\* before and after the update, each once; when the DEL succeeds these keys
\* are gone and no other key has changed
C2_UpdateCompleteness ==
    UpdatedExisting =>
        LET expected == InvalidationSet(ret.pre) \cup InvalidationSet(ret.post)
        IN /\ Len(ret.delReq) = 1
           /\ Range(ret.delReq[1]) = expected
           /\ Len(ret.delReq[1]) = Cardinality(expected)
           /\ ret.changed \subseteq expected
           /\ ret.delOK[1] => \A k \in expected : cache[k] = NoKey

\* an Update changed the name an index depends on and deleted the entry cached
\* under the old name
C2_Witness ==
    /\ UpdatedExisting
    /\ Lower(ret.pre.name) # Lower(ret.post.name)
    /\ ret.delOK[1]
    /\ <<"name", Lower(ret.pre.name)>> \in ret.changed

\* C3: after Save replaced an existing entity and returned without error, no
\* cache entry remains under the entity's primary key or index keys
C3_SaveInvalidates ==
    (ret.op = "Save" /\ ret.path = "replace" /\ ret.wrote /\ ret.err = "ok"
        /\ ret.pre # ret.post)
        => \A k \in InvalidationSet(ret.post) : cache[k] = NoKey

\* C4: after Delete removed the documents and returned without error, it has
\* returned the number of documents deleted, none of the ids is in the backend
\* and no cache entry remains under the keys of any entity it read
C4_DeleteInvalidates ==
    (ret.op = "Delete" /\ ret.wrote /\ ret.err = "ok")
        => /\ ret.n = Cardinality(ret.vals)
           /\ \A i \in ret.keys : DbGet(db, i) = [val |-> Zero, found |-> FALSE]
           /\ \A v \in ret.vals : \A k \in InvalidationSet(v) : cache[k] = NoKey

\* C5: after Create inserted the entity, the entity has a non-null id, the
\* backend returns it under that id and no cache entry remains under its keys
C5_CreateInvalidates ==
    (ret.op = "Create" /\ ret.wrote)
        => /\ ~IsNullID(ret.val.id)
           /\ DbGet(db, ret.val.id) = [val |-> ret.val, found |-> TRUE]
           /\ \A k \in InvalidationSet(ret.val) : cache[k] = NoKey

\* C9: a Create, Update or Delete whose backend write succeeded and whose
\* cache key deletion failed returns an error
C9_ClearCacheFailureReported ==
    (ret.op \in {"Create", "Update", "Delete"} /\ ret.wrote
        /\ \E i \in DOMAIN ret.delOK : ~ret.delOK[i])
        => ret.err # "ok"

\* C17: Create, Update and Delete issue a DEL only after their backend write
\* succeeded, and after a successful write they issue the DEL in the same call:
\* one for Create and Update, one for each entity read for Delete
C17_WriteBeforeRefresh ==
    (ret.op \in {"Create", "Update", "Delete"})
        => /\ ~ret.wrote => ret.delReq = <<>>
           /\ ret.wrote =>
                 Len(ret.delReq) = IF ret.op = "Delete" THEN Cardinality(ret.vals) ELSE 1

\* C12: a Create, Save, Update or Delete in which a backend call returned an
\* error returns an error and has changed no cache key
C12_BackendFailurePropagates ==
    (ret.op \in {"Create", "Save", "Update", "Delete"} /\ ret.dbErr)
        => (ret.err # "ok" /\ ret.changed = {})

----------------------------------------------------------------------------
(* The Redis hash commands RedisHashJson uses.  A hash is the record of its *)
(* fields and its remaining time; a hash without fields does not exist.    *)

NoField == NoKey.t

Stringify(id) == id

HExists(h) == h # NoHash

\* HSET key field text ...: a hash that is created has no expiry
HSet(h, texts) ==
    [f |-> [i \in IDs |-> IF texts[i] # NoField THEN texts[i] ELSE h.f[i]],
     ttl |-> IF HExists(h) THEN h.ttl ELSE Persist]

\* EXPIRE key ttl: nothing happens to a key that does not exist
Expire(h) == IF HExists(h) THEN [h EXCEPT !.ttl = TTL] ELSE h

HashTick(h) ==
    IF ~HExists(h) \/ h.ttl = Persist THEN h
    ELSE IF h.ttl <= 1 THEN NoHash
    ELSE [h EXCEPT !.ttl = h.ttl - 1]

----------------------------------------------------------------------------
(* RedisHashJson *)

\* HGetJson(key, id): (value, found, error)
HGetJson(h, id, fail) ==
    IF fail THEN [val |-> Zero, found |-> FALSE, err |-> "redis"]
    ELSE IF id \notin IDs \/ h.f[Stringify(id)] = NoField
    THEN [val |-> Zero, found |-> FALSE, err |-> "ok"]
    ELSE LET u == Unmarshal(h.f[Stringify(id)], Zero)
         IN [val |-> u.val, found |-> TRUE, err |-> u.err]

Decodes(text) == Unmarshal(text, Zero).err = "ok"

\* HGetAllJson(key): the fields are visited in the map's order; the first text
\* that does not decode ends the loop, and before holds the fields visited
\* ahead of it
HGetAllJson(h, fail, before) ==
    LET present == {i \in IDs : h.f[i] # NoField}
        bad == {i \in present : ~Decodes(h.f[i])}
        taken == IF bad = {} THEN present ELSE before
    IN IF fail THEN [vals |-> {}, err |-> "redis"]
       ELSE [vals |-> {Unmarshal(h.f[i], Zero).val : i \in taken}, err |-> "ok"]

\* HMGetJson(key, ids...): HMGET answers nil for a field that is absent, and
\* the loop's v.(string) panics on it; a text that does not decode ends the loop
RECURSIVE DecodeList(_, _)
DecodeList(h, ids) ==
    IF ids = <<>> THEN [vals |-> <<>>, panic |-> FALSE]
    ELSE LET id == Head(ids)
             raw == IF id \in IDs THEN h.f[Stringify(id)] ELSE NoField
         IN IF raw = NoField THEN [vals |-> <<>>, panic |-> TRUE]
            ELSE IF ~Decodes(raw) THEN [vals |-> <<>>, panic |-> FALSE]
            ELSE LET rest == DecodeList(h, Tail(ids))
                 IN [vals |-> <<Unmarshal(raw, Zero).val>> \o rest.vals,
                     panic |-> rest.panic]

HMGetJson(h, ids, fail) ==
    IF ids = <<>> THEN [vals |-> <<>>, err |-> "ok", panic |-> FALSE]
    ELSE IF fail THEN [vals |-> <<>>, err |-> "redis", panic |-> FALSE]
    ELSE LET r == DecodeList(h, ids)
         IN [vals |-> r.vals, err |-> "ok", panic |-> r.panic]

\* HSetJson(key, objs...): objs is the set of rows, each under its id; every
\* row is encoded before HSET is sent
HSetJson(h, objs, fail) ==
    IF objs = {} THEN [hash |-> h, err |-> "ok"]
    ELSE IF \E o \in objs : ~Marshals(o) THEN [hash |-> h, err |-> "marshal"]
    ELSE IF fail THEN [hash |-> h, err |-> "redis"]
    ELSE [hash |-> HSet(h, [i \in IDs |->
                            IF \E o \in objs : GetID(o) = i
                            THEN Marshal(CHOOSE o \in objs : GetID(o) = i)
                            ELSE NoField]),
          err |-> "ok"]

\* HDEL key field ...: a hash that loses its last field is gone
HDel(h, ids) ==
    LET f == [i \in IDs |-> IF i \in ids THEN NoField ELSE h.f[i]]
    IN IF \A i \in IDs : f[i] = NoField THEN NoHash ELSE [h EXCEPT !.f = f]

\* HDelJson(key, ids...)
HDelJson(h, ids, fail) ==
    IF ids = {} THEN [hash |-> h, err |-> "ok"]
    ELSE IF fail THEN [hash |-> h, err |-> "redis"]
    ELSE [hash |-> HDel(h, ids), err |-> "ok"]

----------------------------------------------------------------------------
(* The backend behind FullRedisCache: the FullDBCache the Gorm adapter gives *)

Rows(d) == {d[i] : i \in {j \in IDs : HasDoc(d, j)}}

\* Create(r): the insert assigns a primary key to a row that has none
Gorm_Create(d, r, fresh, fail) ==
    LET e == IF IsNullID(GetID(r)) THEN [r EXCEPT !.id = fresh] ELSE r
    IN IF fail \/ HasDoc(d, e.id) THEN [db |-> d, err |-> "db", val |-> r]
       ELSE [db |-> [d EXCEPT ![e.id] = e], err |-> "ok", val |-> e]

\* Save(r)
Gorm_Save(d, r, fresh, fail) ==
    IF fail THEN [db |-> d, err |-> "db", val |-> r]
    ELSE IF ~DbGet(d, GetID(r)).found THEN Gorm_Create(d, r, fresh, FALSE)
    ELSE [db |-> [d EXCEPT ![GetID(r)] = r], err |-> "ok", val |-> r]

\* Update(id, values): rows affected
Gorm_Update(d, id, values, fail) ==
    IF fail THEN [db |-> d, err |-> "db", n |-> 0]
    ELSE IF ~DbGet(d, id).found THEN [db |-> d, err |-> "ok", n |-> 0]
    ELSE [db |-> [d EXCEPT ![id] = ApplySet(d[id], values)], err |-> "ok", n |-> 1]

\* Delete(ids...): rows affected
Gorm_Delete(d, ids, fail) ==
    IF fail THEN [db |-> d, err |-> "db", n |-> 0]
    ELSE [db |-> [i \in IDs |-> IF i \in ids THEN NoDoc ELSE d[i]], err |-> "ok",
          n |-> Cardinality({i \in ids : HasDoc(d, i)})]

\* ListAll()
Gorm_ListAll(d, fail) ==
    IF fail THEN [rows |-> {}, err |-> "db"] ELSE [rows |-> Rows(d), err |-> "ok"]

----------------------------------------------------------------------------
(* FullRedisCache.  fault names the one call that fails, if any *)

\* load(): out names the step that failed, or "ok"
load(d, h, fault) ==
    LET r == Gorm_ListAll(d, fault = "listall")
        hs == HSetJson(h, r.rows, fault = "hset")
    IN IF r.err # "ok" THEN [hash |-> h, err |-> r.err, out |-> "listall"]
       ELSE IF hs.err # "ok" THEN [hash |-> h, err |-> hs.err, out |-> "hset"]
       ELSE IF fault = "expire" THEN [hash |-> hs.hash, err |-> "redis", out |-> "expire"]
       ELSE [hash |-> Expire(hs.hash), err |-> "ok", out |-> "ok"]

\* Get(id)
FullRedisCache_Get(d, h, id, fault) ==
    LET r0 == [RetNone EXCEPT !.op = "Get", !.id = id]
        g1 == HGetJson(h, id, fault = "hget1")
        ld == load(d, h, fault)
        g2 == HGetJson(ld.hash, id, fault = "hget2")
    IN IF g1.err # "ok"
       THEN [db |-> d, hash |-> h,
             ret |-> [r0 EXCEPT !.path = "hit", !.val = g1.val, !.err = g1.err]]
       ELSE IF g1.found
       THEN [db |-> d, hash |-> h,
             ret |-> [r0 EXCEPT !.path = "hit", !.val = g1.val, !.found = TRUE]]
       ELSE IF ld.err # "ok"
       THEN [db |-> d, hash |-> ld.hash,
             ret |-> [r0 EXCEPT !.path = "miss", !.err = ld.err, !.loaded = ld.out]]
       ELSE [db |-> d, hash |-> ld.hash,
             ret |-> [r0 EXCEPT !.path = "miss", !.loaded = "ok", !.val = g2.val,
                                !.found = g2.found, !.err = g2.err]]

\* List(ids...)
FullRedisCache_List(d, h, ids, fault) ==
    LET r0 == [RetNone EXCEPT !.op = "List", !.key = ids]
        miss == ~HExists(h)
        ld == IF miss THEN load(d, h, fault) ELSE [hash |-> h, err |-> "ok", out |-> "none"]
        m == HMGetJson(ld.hash, ids, fault = "hmget")
    IN IF fault = "exists"
       THEN [db |-> d, hash |-> h, ret |-> [r0 EXCEPT !.err = "redis"]]
       ELSE IF ld.err # "ok"
       THEN [db |-> d, hash |-> ld.hash,
             ret |-> [r0 EXCEPT !.path = "miss", !.err = ld.err, !.loaded = ld.out]]
       ELSE [db |-> d, hash |-> ld.hash,
             ret |-> [r0 EXCEPT !.path = IF miss THEN "miss" ELSE "hit",
                                !.loaded = ld.out, !.vals = Range(m.vals),
                                !.err = m.err, !.panic = m.panic]]

\* ListAll()
FullRedisCache_ListAll(d, h, fault, before) ==
    LET r0 == [RetNone EXCEPT !.op = "ListAll"]
        miss == ~HExists(h)
        ld == IF miss THEN load(d, h, fault) ELSE [hash |-> h, err |-> "ok", out |-> "none"]
        a == HGetAllJson(ld.hash, fault = "hgetall", before)
    IN IF fault = "exists"
       THEN [db |-> d, hash |-> h, ret |-> [r0 EXCEPT !.err = "redis"]]
       ELSE IF ld.err # "ok"
       THEN [db |-> d, hash |-> ld.hash,
             ret |-> [r0 EXCEPT !.path = "miss", !.err = ld.err, !.loaded = ld.out]]
       ELSE [db |-> d, hash |-> ld.hash,
             ret |-> [r0 EXCEPT !.path = IF miss THEN "miss" ELSE "hit",
                                !.loaded = ld.out, !.vals = a.vals, !.err = a.err]]

\* Create(r)
FullRedisCache_Create(d, h, r, fresh, fault) ==
    LET r0 == [RetNone EXCEPT !.op = "Create", !.pre = DbGet(d, GetID(r)).val]
        w == Gorm_Create(d, r, fresh, fault = "write")
        ld == load(w.db, h, fault)
    IN IF w.err # "ok"
       THEN [db |-> d, hash |-> h,
             ret |-> [r0 EXCEPT !.err = w.err, !.val = w.val, !.dbErr = TRUE]]
       ELSE [db |-> w.db, hash |-> ld.hash,
             ret |-> [r0 EXCEPT !.wrote = TRUE, !.val = w.val, !.id = w.val.id,
                                !.post = w.val, !.loaded = ld.out, !.err = ld.err]]

\* the fault of Save's closing load(), as load names it
ReloadFault(fault) ==
    CASE fault = "reload listall" -> "listall"
      [] fault = "reload hset" -> "hset"
      [] fault = "reload expire" -> "expire"
      [] OTHER -> "none"

\* Save(r)
FullRedisCache_Save(d, h, r, fresh, fault) ==
    LET g == FullRedisCache_Get(d, h, GetID(r), fault)
        r0 == [RetNone EXCEPT !.op = "Save", !.pre = DbGet(d, GetID(r)).val]
        w == IF IsNullID(GetID(r)) \/ ~g.ret.found
             THEN Gorm_Create(d, r, fresh, fault = "write")
             ELSE Gorm_Save(d, r, fresh, fault = "write")
        ld == load(w.db, g.hash, ReloadFault(fault))
    IN IF g.ret.err # "ok"
       THEN [db |-> d, hash |-> g.hash,
             ret |-> [r0 EXCEPT !.path = "get", !.err = g.ret.err, !.val = r]]
       ELSE IF w.err # "ok"
       THEN [db |-> d, hash |-> g.hash,
             ret |-> [r0 EXCEPT !.path = "write", !.err = w.err, !.val = w.val,
                                !.dbErr = TRUE]]
       ELSE [db |-> w.db, hash |-> ld.hash,
             ret |-> [r0 EXCEPT !.path = "write", !.wrote = TRUE, !.val = w.val,
                                !.id = w.val.id, !.post = w.val, !.loaded = ld.out]]

\* Update(id, values)
FullRedisCache_Update(d, h, id, values, fault) ==
    LET r0 == [RetNone EXCEPT !.op = "Update", !.id = id, !.pre = DbGet(d, id).val]
        w == Gorm_Update(d, id, values, fault = "write")
        ld == load(w.db, h, fault)
    IN IF IsNullID(id)
       THEN [db |-> d, hash |-> h, ret |-> [r0 EXCEPT !.path = "nullid"]]
       ELSE IF w.err # "ok"
       THEN [db |-> d, hash |-> h, ret |-> [r0 EXCEPT !.err = w.err, !.dbErr = TRUE]]
       ELSE [db |-> w.db, hash |-> ld.hash,
             ret |-> [r0 EXCEPT !.wrote = TRUE, !.n = w.n, !.loaded = ld.out,
                                !.post = DbGet(w.db, id).val]]

\* Delete(ids...)
FullRedisCache_Delete(d, h, ids, fault) ==
    LET r0 == [RetNone EXCEPT !.op = "Delete", !.keys = ids]
        w == Gorm_Delete(d, ids, fault = "write")
        ld == load(w.db, h, fault)
    IN IF w.err # "ok"
       THEN [db |-> d, hash |-> h, ret |-> [r0 EXCEPT !.err = w.err, !.dbErr = TRUE]]
       ELSE [db |-> w.db, hash |-> ld.hash,
             ret |-> [r0 EXCEPT !.wrote = TRUE, !.n = w.n, !.loaded = ld.out]]

\* ClearCache(objs...)
FullRedisCache_ClearCache(d, h, fail) ==
    [db |-> d, hash |-> IF fail THEN h ELSE NoHash,
     ret |-> [RetNone EXCEPT !.op = "ClearCache", !.err = IF fail THEN "redis" ELSE "ok"]]

----------------------------------------------------------------------------
(* SpecFull: FullRedisCache's handlers, one call at a time *)

InitFull ==
    /\ cache = EmptyCache
    /\ db \in DbStates
    /\ hash = NoHash
    /\ ret = RetNone
    /\ ops = 0
    /\ pc = <<>>
    /\ loc = <<>>
    /\ created = EmptyDb
    /\ stored = NoStored

LoadFaults == {"listall", "hset", "expire"}

\* a call returns; ttl is the remaining time of the hash it leaves
FullDone(r) ==
    /\ db' = r.db
    /\ hash' = r.hash
    /\ ret' = [r.ret EXCEPT !.hsame = (r.hash = hash), !.ttl = r.hash.ttl]
    /\ ops' = ops + 1
    /\ UNCHANGED <<cache, pc, loc, created, stored>>

Full_Create ==
    \E r \in Entities, fault \in {"none", "write"} \cup LoadFaults :
        \E fresh \in FreshIds(r) :
            /\ ops < FullCalls
            /\ FullDone(FullRedisCache_Create(db, hash, r, fresh, fault))

Full_Save ==
    \E r \in Entities,
       fault \in {"none", "hget1", "hget2", "write", "reload listall", "reload hset",
                  "reload expire"} \cup LoadFaults :
        \E fresh \in FreshIds(r) :
            /\ ops < FullCalls
            /\ FullDone(FullRedisCache_Save(db, hash, r, fresh, fault))

Full_Update ==
    \E id \in IDs \cup {NullID}, n \in Names, fault \in {"none", "write"} \cup LoadFaults :
        /\ ops < FullCalls
        /\ FullDone(FullRedisCache_Update(db, hash, id, [name |-> n], fault))

Full_Delete ==
    \E ids \in SUBSET IDs \ {{}}, fault \in {"none", "write"} \cup LoadFaults :
        /\ ops < FullCalls
        /\ FullDone(FullRedisCache_Delete(db, hash, ids, fault))

Full_Get ==
    \E id \in IDs, fault \in {"none", "hget1", "hget2"} \cup LoadFaults :
        /\ ops < FullCalls
        /\ FullDone(FullRedisCache_Get(db, hash, id, fault))

IdLists == {<<>>, <<"1">>, <<"2">>, <<"1", "2">>}

Full_List ==
    \E ids \in IdLists, fault \in {"none", "exists", "hmget"} \cup LoadFaults :
        /\ ops < FullCalls
        /\ FullDone(FullRedisCache_List(db, hash, ids, fault))

Full_ListAll ==
    \E fault \in {"none", "exists", "hgetall"} \cup LoadFaults :
        /\ ops < FullCalls
        /\ FullDone(FullRedisCache_ListAll(db, hash, fault, {}))

Full_ClearCache ==
    \E fail \in BOOLEAN :
        /\ ops < FullCalls
        /\ FullDone(FullRedisCache_ClearCache(db, hash, fail))

\* time passes
Full_Tick ==
    /\ hash' = HashTick(hash)
    /\ hash' # hash
    /\ UNCHANGED <<cache, db, ret, ops, pc, loc, created, stored>>

NextFull ==
    \/ Full_Create \/ Full_Save \/ Full_Update \/ Full_Delete
    \/ Full_Get \/ Full_List \/ Full_ListAll \/ Full_ClearCache \/ Full_Tick

SpecFull == InitFull /\ [][NextFull]_vars

----------------------------------------------------------------------------
(* Claims about FullRedisCache, one call at a time *)

Mutations == {"Create", "Save", "Update", "Delete"}

\* the hash holds exactly the backend's rows, each under its id
SnapshotIsBackend(h, d) ==
    \A i \in IDs : h.f[i] = IF HasDoc(d, i) THEN Marshal(d[i]) ELSE NoField

\* no time has passed since the last call returned
JustReturned == hash.ttl = ret.ttl

\* C6: when a mutation whose backend write and load() both succeeded returns,
\* the cached hash holds exactly the entities the backend holds
C6_SnapshotReplaced ==
    (ret.op \in Mutations /\ ret.wrote /\ ret.loaded = "ok" /\ JustReturned)
        => SnapshotIsBackend(hash, db)

\* C10: a mutation whose backend write succeeded and whose load() failed
\* returns an error
C10_FailedReloadSurfaced ==
    (ret.op \in Mutations /\ ret.wrote /\ ret.loaded \in LoadFaults)
        => ret.err # "ok"

\* C11: a mutation whose backend write failed returns the error and leaves the
\* cached hash, its fields and its expiry as they were when the call began
C11_RejectedWriteUntouched ==
    (ret.op \in Mutations /\ ret.dbErr)
        => (ret.err = "db" /\ ret.hsame)

\* C18: when a call whose load() returned without error returns, the hash
\* exists and has the configured time-to-live
C18_LoadMovesToLoaded ==
    (ret.loaded = "ok" /\ JustReturned) => (HExists(hash) /\ hash.ttl = TTL)

\* the entities the hash holds under the ids asked for
HeldUnder(h, ids) ==
    {Unmarshal(h.f[i], Zero).val : i \in {j \in Range(ids) : h.f[j] # NoField}}

\* C13: a List whose Redis commands and load() did not fail returns without
\* error or panic the entities the hash holds under the ids asked for, the ids
\* that are no field of the hash being left out
C13_ListToleratesAbsent ==
    (ret.op = "List" /\ ret.path \in {"hit", "miss"} /\ ret.err = "ok" /\ JustReturned)
        => (~ret.panic /\ ret.vals = HeldUnder(hash, ret.key))

----------------------------------------------------------------------------
(* SpecConc: FullRedisCache called by two callers at once.  Every backend   *)
(* call and every Redis command of a handler is one step; no call fails.   *)

Procs == {1, 2}

\* since: the created entities when the call began; clean: no Update or Delete
\* has been aimed at the entity since this Create inserted it
Idle == [op |-> "none", id |-> NullID, ent |-> Zero, ids |-> {}, rows |-> {},
         since |-> EmptyDb, clean |-> FALSE]

InitConc ==
    /\ cache = EmptyCache
    /\ db \in DbStates
    /\ hash = NoHash
    /\ ret = RetNone
    /\ ops = 0
    /\ pc = [p \in Procs |-> "idle"]
    /\ loc = [p \in Procs |-> Idle]
    /\ created = EmptyDb
    /\ stored = NoStored

\* the ids a caller's mutation is aimed at
Target(l) ==
    CASE l.op = "Create" -> {l.ent.id}
      [] l.op = "Update" -> {l.id}
      [] l.op = "Delete" -> l.ids
      [] OTHER -> {}

\* an Update or Delete is aimed at ids: what Create stored under them is no
\* longer to be expected, by the ghost and by the calls under way
Forgotten(l, ids) ==
    [l EXCEPT !.since = [i \in IDs |-> IF i \in ids THEN NoDoc ELSE l.since[i]],
              !.clean = l.clean /\ ~(l.op = "Create" /\ l.ent.id \in ids)]

ForgetCreated(ids) == [i \in IDs |-> IF i \in ids THEN NoDoc ELSE created[i]]

Return(p, r) ==
    /\ pc' = [pc EXCEPT ![p] = "idle"]
    /\ ret' = [r EXCEPT !.pre = NoDoc]

\* a caller begins Create(r), Update(id, values), Delete(ids...), Get(id) or ListAll()
Conc_Call(p) ==
    /\ pc[p] = "idle"
    /\ ops < ConcCalls
    /\ ops' = ops + 1
    /\ \E op \in {"Create", "Update", "Delete", "Get", "ListAll"},
          id \in IDs, n \in Names :
        LET l == [Idle EXCEPT !.op = op, !.id = id,
                              !.ent = [id |-> id, name |-> n, grp |-> "g"],
                              !.ids = {id}, !.since = created]
            hit == IF op \in {"Update", "Delete"} THEN {id} ELSE {}
        IN /\ op \in {"Delete", "Get", "ListAll"} => n = "a"
           /\ op = "ListAll" => id = "1"
           /\ pc' = [pc EXCEPT ![p] =
                        CASE op \in {"Create", "Update", "Delete"} -> "write"
                          [] op = "Get" -> "hget1"
                          [] OTHER -> "exists"]
           /\ created' = ForgetCreated(hit)
           /\ loc' = [q \in Procs |-> IF q = p THEN l ELSE Forgotten(loc[q], hit)]
    /\ UNCHANGED <<cache, db, hash, ret, stored>>

\* the handler's backend write; a failed insert returns its error
Conc_Write(p) ==
    /\ pc[p] = "write"
    /\ LET l == loc[p]
           w == CASE l.op = "Create" -> Gorm_Create(db, l.ent, NullID, FALSE)
                  [] l.op = "Update" -> Gorm_Update(db, l.id, [name |-> l.ent.name], FALSE)
                  [] OTHER -> Gorm_Delete(db, l.ids, FALSE)
       IN IF w.err # "ok"
          THEN /\ Return(p, [RetNone EXCEPT !.op = l.op, !.caller = p, !.err = w.err])
               /\ UNCHANGED <<db, loc, created>>
          ELSE /\ db' = w.db
               /\ pc' = [pc EXCEPT ![p] = "listall"]
               /\ IF l.op = "Create"
                  THEN /\ loc' = [loc EXCEPT ![p].clean = TRUE]
                       /\ UNCHANGED created
                  ELSE /\ created' = ForgetCreated(Target(l))
                       /\ loc' = [q \in Procs |-> Forgotten(loc[q], Target(l))]
               /\ UNCHANGED ret
    /\ UNCHANGED <<cache, hash, ops, stored>>

\* load(): s.db.ListAll()
Conc_LoadListAll(p) ==
    /\ pc[p] = "listall"
    /\ loc' = [loc EXCEPT ![p].rows = Gorm_ListAll(db, FALSE).rows]
    /\ pc' = [pc EXCEPT ![p] = "hset"]
    /\ UNCHANGED <<cache, db, hash, ret, ops, created, stored>>

\* load(): s.red.HSetJson(key, r)
Conc_LoadHSet(p) ==
    /\ pc[p] = "hset"
    /\ hash' = HSetJson(hash, loc[p].rows, FALSE).hash
    /\ pc' = [pc EXCEPT ![p] = "expire"]
    /\ UNCHANGED <<cache, db, ret, ops, loc, created, stored>>

\* load(): s.red.Expire(key, ttl); a mutation returns after it
Conc_LoadExpire(p) ==
    /\ pc[p] = "expire"
    /\ hash' = Expire(hash)
    /\ LET l == loc[p]
       IN CASE l.op = "Get" ->
                 /\ pc' = [pc EXCEPT ![p] = "hget2"]
                 /\ UNCHANGED <<ret, created>>
            [] l.op = "ListAll" ->
                 /\ pc' = [pc EXCEPT ![p] = "hgetall"]
                 /\ UNCHANGED <<ret, created>>
            [] OTHER ->
                 /\ Return(p, [RetNone EXCEPT !.op = l.op, !.caller = p, !.wrote = TRUE,
                                              !.loaded = "ok"])
                 /\ created' =
                        IF l.op = "Create" /\ l.clean
                        THEN [created EXCEPT ![l.ent.id] = l.ent]
                        ELSE created
    /\ UNCHANGED <<cache, db, ops, loc, stored>>

\* ListAll: s.red.Exists(key)
Conc_Exists(p) ==
    /\ pc[p] = "exists"
    /\ pc' = [pc EXCEPT ![p] = IF HExists(hash) THEN "hgetall" ELSE "listall"]
    /\ UNCHANGED <<cache, db, hash, ret, ops, loc, created, stored>>

\* ListAll: s.red.HGetAllJson(key), and the return
Conc_HGetAll(p) ==
    /\ pc[p] = "hgetall"
    /\ LET a == HGetAllJson(hash, FALSE, {})
       IN Return(p, [RetNone EXCEPT !.op = "ListAll", !.caller = p, !.vals = a.vals,
                                    !.err = a.err, !.since = loc[p].since])
    /\ UNCHANGED <<cache, db, hash, ops, loc, created, stored>>

\* Get: the first s.red.HGetJson(key, id)
Conc_HGet1(p) ==
    /\ pc[p] = "hget1"
    /\ LET g == HGetJson(hash, loc[p].id, FALSE)
       IN IF g.found \/ g.err # "ok"
          THEN Return(p, [RetNone EXCEPT !.op = "Get", !.caller = p, !.id = loc[p].id,
                                         !.val = g.val, !.found = g.found /\ g.err = "ok",
                                         !.err = g.err, !.since = loc[p].since])
          ELSE /\ pc' = [pc EXCEPT ![p] = "listall"]
               /\ UNCHANGED ret
    /\ UNCHANGED <<cache, db, hash, ops, loc, created, stored>>

\* Get: the s.red.HGetJson(key, id) after load()
Conc_HGet2(p) ==
    /\ pc[p] = "hget2"
    /\ LET g == HGetJson(hash, loc[p].id, FALSE)
       IN Return(p, [RetNone EXCEPT !.op = "Get", !.caller = p, !.id = loc[p].id,
                                    !.val = g.val, !.found = g.found, !.err = g.err,
                                    !.since = loc[p].since])
    /\ UNCHANGED <<cache, db, hash, ops, loc, created, stored>>

\* time passes
Conc_Tick ==
    /\ hash' = HashTick(hash)
    /\ hash' # hash
    /\ UNCHANGED <<cache, db, ret, ops, pc, loc, created, stored>>

NextConc ==
    \/ \E p \in Procs :
        \/ Conc_Call(p) \/ Conc_Write(p) \/ Conc_LoadListAll(p) \/ Conc_LoadHSet(p)
        \/ Conc_LoadExpire(p) \/ Conc_Exists(p) \/ Conc_HGetAll(p)
        \/ Conc_HGet1(p) \/ Conc_HGet2(p)
    \/ Conc_Tick

SpecConc == InitConc /\ [][NextConc]_vars

----------------------------------------------------------------------------
(* Claims about FullRedisCache under interleaving and expiry *)

\* C7: a Get or ListAll that began after Create(E) returned nil, with no Update
\* or Delete aimed at E since, and that returns without error, returns E
C7_CreateConverges ==
    (ret.op \in {"Get", "ListAll"} /\ ret.err = "ok")
        => \A i \in IDs :
              (ret.since[i] # NoDoc /\ created[i] = ret.since[i])
                  => /\ ret.op = "ListAll" => ret.since[i] \in ret.vals
                     /\ (ret.op = "Get" /\ ret.id = i)
                            => (ret.found /\ ret.val = ret.since[i])

AllIdle == \A p \in Procs : pc[p] = "idle"

\* C8: once every call has completed, the cached hash holds under each id of
\* the backend the value the backend holds (no older full read has overwritten
\* a newer one)
C8_OverlappingReloadsSafe ==
    (AllIdle /\ HExists(hash))
        => \A i \in IDs : HasDoc(db, i) => hash.f[i] = Marshal(db[i])

----------------------------------------------------------------------------
(* SpecStore: RedisJson and RedisHashJson called directly, over one set of  *)
(* keys and one hash                                                       *)

InitStore ==
    /\ cache = EmptyCache
    /\ db = EmptyDb
    /\ hash = NoHash
    /\ ret = RetNone
    /\ ops = 0
    /\ pc = <<>>
    /\ loc = <<>>
    /\ created = EmptyDb
    /\ stored = NoStored

\* the values handed to SetJson, and to MSetJson, which takes any value
StoreValues == {e \in Entities : e.id = "1" /\ e.name \in {"a", "b"}}

AnyValues == StoreValues \cup {PlainString} \cup {u \in Unencodable : u.id = "1"}

ObjMaps == UNION {[ks -> AnyValues] : ks \in SUBSET KSKeys}

KeyLists ==
    {<<>>} \cup {<<k>> : k \in KSKeys}
    \cup {ks \in KSKeys \X KSKeys : ks[1] # ks[2]}

\* the rows handed to HSetJson: no two share an id
Objs ==
    {os \in SUBSET ({e \in Entities : e.name = "a"} \cup Unencodable) :
        /\ \A o \in os : o.id \in IDs
        /\ \A o1, o2 \in os : o1.id = o2.id => o1 = o2}

\* a call returns r and leaves c and h; wrote holds the keys it has written or
\* deleted, set the entities a successful SetJson has left under its key
StoreDone(c, h, r, wrote, set) ==
    /\ cache' = c
    /\ hash' = h
    /\ ret' = [r EXCEPT !.changed = {k \in AllKeys : c[k] # cache[k]},
                        !.hsame = (h = hash)]
    /\ stored' = [k \in AllKeys |->
                     IF k \in DOMAIN set THEN [e |-> set[k], age |-> 0]
                     ELSE IF k \in wrote THEN [e |-> NoDoc, age |-> 0]
                     ELSE stored[k]]
    /\ ops' = ops + 1
    /\ UNCHANGED <<db, pc, loc, created>>

NoSet == [k \in {} |-> NoDoc]

ST_SetJson ==
    \E k \in KSKeys, e \in StoreValues, fail \in BOOLEAN :
        /\ ops < StoreCalls
        /\ StoreDone(IF fail THEN cache ELSE SetJson(cache, k, e), hash,
                     [RetNone EXCEPT !.op = "SetJson", !.key = k, !.val = e,
                                     !.err = IF fail THEN "redis" ELSE "ok"],
                     {}, IF fail THEN NoSet ELSE [j \in {k} |-> e])

ST_SetNull ==
    \E k \in KSKeys, fail \in BOOLEAN :
        /\ ops < StoreCalls
        /\ StoreDone(IF fail THEN cache ELSE SetNull(cache, k), hash,
                     [RetNone EXCEPT !.op = "SetNull", !.key = k,
                                     !.err = IF fail THEN "redis" ELSE "ok"],
                     IF fail THEN {} ELSE {k}, NoSet)

ST_GetJson ==
    \E k \in KSKeys, fail \in BOOLEAN :
        /\ ops < StoreCalls
        /\ LET r == GetJson(cache, k, fail)
           IN StoreDone(cache, hash,
                        [RetNone EXCEPT !.op = "GetJson", !.key = k, !.val = r.val,
                                        !.found = r.found, !.err = r.err,
                                        !.path = IF fail THEN "down" ELSE "sent",
                                        !.n = stored[k].age,
                                        !.hit = IF fail THEN NoKey.t ELSE cache[k].t,
                                        !.texts = IF fail \/ cache[k] = NoKey THEN {}
                                                  ELSE {cache[k].t}],
                        {}, NoSet)

ST_Del ==
    \E ks \in SUBSET KSKeys \ {{}}, fail \in BOOLEAN :
        /\ ops < StoreCalls
        /\ StoreDone(IF fail THEN cache ELSE Del(cache, ks), hash,
                     [RetNone EXCEPT !.op = "Del", !.keys = ks,
                                     !.err = IF fail THEN "redis" ELSE "ok"],
                     IF fail THEN {} ELSE ks, NoSet)

ST_MSetJson ==
    \E objMap \in ObjMaps, fault \in {"none", "mset", "expires"} :
        \E done \in SUBSET DOMAIN objMap :
            /\ ops < StoreCalls
            /\ fault # "expires" => done = {}
            /\ LET r == MSetJson(cache, objMap, fault, done)
               IN StoreDone(r.cache, hash,
                            [RetNone EXCEPT !.op = "MSetJson", !.keys = DOMAIN objMap,
                                            !.vals = Range(objMap), !.err = r.err],
                            {k \in DOMAIN objMap : r.cache[k] # cache[k]}
                                \cup (IF r.err \in {"marshal", "redis"} /\ fault # "expires"
                                      THEN {} ELSE DOMAIN objMap),
                            NoSet)

ST_MSetNull ==
    \E ks \in SUBSET KSKeys, fail \in BOOLEAN :
        \E done \in SUBSET ks :
            /\ ops < StoreCalls
            /\ ~fail => done = {}
            /\ LET r == MSetNull(cache, ks, fail, done)
               IN StoreDone(r.cache, hash,
                            [RetNone EXCEPT !.op = "MSetNull", !.keys = ks, !.err = r.err],
                            IF fail THEN done ELSE ks, NoSet)

ST_MGetJson ==
    \E keys \in KeyLists, fail \in BOOLEAN :
        \E failAt \in 0..Len(keys) :
            /\ ops < StoreCalls
            /\ fail => failAt = 0
            /\ LET r == MGetJson(cache, keys, fail, failAt)
               IN StoreDone(r.cache, hash,
                            [RetNone EXCEPT !.op = "MGetJson", !.key = keys,
                                            !.vals = Range(r.vals), !.n = Len(r.vals),
                                            !.err = r.err,
                                            !.texts = IF fail THEN {}
                                                      ELSE {cache[k].t : k \in
                                                              {j \in Range(keys) :
                                                                  cache[j] # NoKey}}],
                            {}, NoSet)

ST_HSetJson ==
    \E objs \in Objs, fail \in BOOLEAN :
        /\ ops < StoreCalls
        /\ LET r == HSetJson(hash, objs, fail)
           IN StoreDone(cache, r.hash,
                        [RetNone EXCEPT !.op = "HSetJson", !.vals = objs, !.err = r.err],
                        {}, NoSet)

\* another writer of the hash (an older build with another schema) leaves a
\* text under a field that does not decode into the entity
ST_OtherHSet ==
    \E i \in IDs :
        /\ ops < StoreCalls
        /\ StoreDone(cache, HSet(hash, [j \in IDs |-> IF j = i THEN Garbage ELSE NoField]),
                     [RetNone EXCEPT !.op = "OtherHSet", !.id = i], {}, NoSet)

ST_HGetJson ==
    \E i \in IDs, fail \in BOOLEAN :
        /\ ops < StoreCalls
        /\ LET r == HGetJson(hash, i, fail)
           IN StoreDone(cache, hash,
                        [RetNone EXCEPT !.op = "HGetJson", !.id = i, !.val = r.val,
                                        !.found = r.found, !.err = r.err,
                                        !.texts = IF fail \/ hash.f[i] = NoField THEN {}
                                                  ELSE {hash.f[i]}],
                        {}, NoSet)

ST_HMGetJson ==
    \E ids \in IdLists, fail \in BOOLEAN :
        /\ ops < StoreCalls
        /\ LET r == HMGetJson(hash, ids, fail)
           IN StoreDone(cache, hash,
                        [RetNone EXCEPT !.op = "HMGetJson", !.key = ids,
                                        !.vals = Range(r.vals), !.err = r.err,
                                        !.panic = r.panic,
                                        !.texts = IF fail THEN {}
                                                  ELSE {hash.f[i] : i \in
                                                          {j \in Range(ids) :
                                                              hash.f[j] # NoField}}],
                        {}, NoSet)

ST_HGetAllJson ==
    \E fail \in BOOLEAN, before \in SUBSET {i \in IDs : Decodes(hash.f[i])} :
        /\ ops < StoreCalls
        /\ LET r == HGetAllJson(hash, fail, before)
           IN StoreDone(cache, hash,
                        [RetNone EXCEPT !.op = "HGetAllJson", !.vals = r.vals,
                                        !.err = r.err,
                                        !.texts = IF fail THEN {}
                                                  ELSE {hash.f[i] : i \in
                                                          {j \in IDs : hash.f[j] # NoField}}],
                        {}, NoSet)

ST_HDelJson ==
    \E ids \in SUBSET IDs, fail \in BOOLEAN :
        /\ ops < StoreCalls
        /\ LET r == HDelJson(hash, ids, fail)
           IN StoreDone(cache, r.hash,
                        [RetNone EXCEPT !.op = "HDelJson", !.keys = ids, !.err = r.err],
                        {}, NoSet)

\* time passes: a key that expires is gone, the others have aged by one tick
ST_Tick ==
    /\ cache' = Tick(cache)
    /\ stored' = [k \in AllKeys |->
                     IF cache'[k] = NoKey THEN [e |-> NoDoc, age |-> 0]
                     ELSE [stored[k] EXCEPT
                              !.age = IF stored[k].age <= TTL THEN stored[k].age + 1
                                      ELSE stored[k].age]]
    /\ <<cache', stored'>> # <<cache, stored>>
    /\ UNCHANGED <<db, hash, ret, ops, pc, loc, created>>

NextStore ==
    \/ ST_SetJson \/ ST_SetNull \/ ST_GetJson \/ ST_Del
    \/ ST_MSetJson \/ ST_MSetNull \/ ST_MGetJson
    \/ ST_HSetJson \/ ST_OtherHSet \/ ST_HGetJson \/ ST_HMGetJson
    \/ ST_HGetAllJson \/ ST_HDelJson \/ ST_Tick

SpecStore == InitStore /\ [][NextStore]_vars

----------------------------------------------------------------------------
(* Claims about the stores *)

StoreReads == {"GetJson", "MGetJson", "HGetJson", "HMGetJson", "HGetAllJson"}

\* C14: a read of either store that fetched a text which does not decode, and
\* returned, returns an error
C14_DecodeFailurePropagates ==
    (ret.op \in StoreReads /\ ~ret.panic /\ \E t \in ret.texts : ~Decodes(t))
        => ret.err # "ok"

C19_ReadsDoNotExtend ==
    \A k \in KSKeys :
        (cache[k] # NoKey /\ cache[k].ttl # Persist)
            => stored[k].age + cache[k].ttl <= TTL

\* C20: an MSetJson or HSetJson one of whose values does not encode returns the
\* encoder's error and has changed no key, no field and no expiry
C20_BatchAllOrNothing ==
    (ret.op \in {"MSetJson", "HSetJson"} /\ \E v \in ret.vals : ~Marshals(v))
        => (ret.err = "marshal" /\ ret.changed = {} /\ ret.hsame)

\* an MSetJson over a stored key was given a value that encodes and one that
\* does not, and returned the encoder's error
C20_Witness ==
    /\ ret.op = "MSetJson" /\ ret.err = "marshal"
    /\ \E v \in ret.vals : Marshals(v)
    /\ \E v \in ret.vals : ~Marshals(v)
    /\ \E k \in ret.keys : cache[k] # NoKey

----------------------------------------------------------------------------
(* SpecInv: the two ClearCache calls over caches that reads have filled    *)

InvDbs == {d \in DbStates : HasDoc(d, "1") /\ d["1"].name = "a"}

InitInv ==
    /\ cache = EmptyCache
    /\ db \in InvDbs
    /\ hash = NoHash
    /\ ret = RetNone
    /\ ops = 0
    /\ pc = <<>>
    /\ loc = <<>>
    /\ created = EmptyDb
    /\ stored = NoStored

\* the index lists handed to RedisMongo.ClearCache
IndexLists == {<<>>} \cup {ListIndexes(e) : e \in Entities}

InvDone(c, h, r) ==
    /\ cache' = c
    /\ hash' = h
    /\ ret' = [r EXCEPT !.changed = {k \in AllKeys : c[k] # cache[k]},
                        !.hsame = (h = hash)]
    /\ ops' = ops + 1
    /\ UNCHANGED <<db, pc, loc, created, stored>>

\* a read-through Get(id) fills the per-key cache
Inv_Get ==
    \E id \in IDs :
        /\ ops < InvCalls
        /\ InvDone(ReadThroughGet(db, cache, id), hash,
                   [RetNone EXCEPT !.op = "ReadGet", !.id = id])

\* a read-through GetBy(index) fills the per-key cache
Inv_GetBy ==
    \E n \in Names :
        \E c \in ReadThroughGetBy(db, cache, Index("name", n)) :
            /\ ops < InvCalls
            /\ InvDone(c, hash, [RetNone EXCEPT !.op = "ReadGetBy"])

\* FullRedisCache.ListAll() fills the hash
Inv_ListAll ==
    /\ ops < InvCalls
    /\ LET r == FullRedisCache_ListAll(db, hash, "none", {})
       IN InvDone(cache, r.hash, r.ret)

\* RedisMongo.ClearCache(id, indexes).  absent: none of the keys was cached;
\* again: the previous call was this ClearCache of the same keys and returned
\* nil; prior: the number of keys that previous call removed
Inv_RM_ClearCache ==
    \E id \in IDs \cup {NullID}, indexes \in IndexLists, fail \in BOOLEAN :
        /\ ops < InvCalls
        /\ LET cc == ClearCache(cache, id, indexes, fail)
               again == /\ ret.op = "RedisMongo.ClearCache"
                        /\ ret.err = "ok"
                        /\ ret.delReq = <<cc.keys>>
           IN InvDone(cc.cache, hash,
                      [RetNone EXCEPT !.op = "RedisMongo.ClearCache", !.id = id,
                                      !.delReq = <<cc.keys>>, !.err = cc.err,
                                      !.path = IF fail THEN "down" ELSE "sent",
                                      !.n = Cardinality({k \in Range(cc.keys) :
                                                cache[k] # NoKey /\ cc.cache[k] = NoKey}),
                                      !.absent = \A k \in Range(cc.keys) : cache[k] = NoKey,
                                      !.again = again,
                                      !.prior = IF again THEN ret.n ELSE 0])

\* FullRedisCache.ClearCache(objs...)
Inv_Full_ClearCache ==
    \E fail \in BOOLEAN :
        /\ ops < InvCalls
        /\ LET r == FullRedisCache_ClearCache(db, hash, fail)
               again == ret.op = "ClearCache" /\ ret.err = "ok"
           IN InvDone(cache, r.hash,
                      [r.ret EXCEPT !.delReq = <<<<(<<"full", "">>)>>>>,
                                    !.path = IF fail THEN "down" ELSE "sent",
                                    !.n = IF HExists(hash) /\ ~HExists(r.hash) THEN 1 ELSE 0,
                                    !.absent = ~HExists(hash),
                                    !.again = again,
                                    !.prior = IF again THEN ret.n ELSE 0])

\* time passes
Inv_Tick ==
    /\ cache' = Tick(cache)
    /\ hash' = HashTick(hash)
    /\ <<cache', hash'>> # <<cache, hash>>
    /\ UNCHANGED <<db, ret, ops, pc, loc, created, stored>>

NextInv ==
    \/ Inv_Get \/ Inv_GetBy \/ Inv_ListAll
    \/ Inv_RM_ClearCache \/ Inv_Full_ClearCache \/ Inv_Tick

SpecInv == InitInv /\ [][NextInv]_vars

----------------------------------------------------------------------------
(* Claims about invalidation *)

ClearCalls == {"RedisMongo.ClearCache", "ClearCache"}

\* C16: a ClearCache whose DEL reached Redis returns nil and changes nothing
\* in either cache when none of its keys is cached, and when it repeats the
\* ClearCache that has just returned nil
C16_IdempotentInvalidation ==
    (ret.op \in ClearCalls /\ ret.path = "sent")
        => /\ (ret.absent /\ ret.delReq # <<<<>>>>)
                 => (ret.err = "ok" /\ ret.changed = {} /\ ret.hsame)
           /\ ret.again => (ret.err = "ok" /\ ret.changed = {} /\ ret.hsame)

\* a ClearCache was called again right after it had removed cached entries
C16_Witness ==
    /\ ret.op \in ClearCalls /\ ret.path = "sent"
    /\ ret.again /\ ret.prior > 0
    /\ ret.err = "ok"

====
